---- MODULE Spec2Model ----
(***************************************************************************)
(* SMCSampler (src/src/models/samplers/base_sampler.py): the SMC driver    *)
(* sample(), the resampler resample() and the step-size controller.        *)
(*                                                                         *)
(* Numbers.  Coordinates are one-dimensional integers, log-weights are     *)
(* naturals, NaN is the value NaN below.  softmax is taken in base 2, so   *)
(* the normalised weight of log-weight a is 2^a / Sum 2^a, an exact        *)
(* rational; all comparisons of rationals are made by cross-multiplying.   *)
(* Times are the integers j of t_j = j / num_timesteps.  The step size     *)
(* langevin_eps is the exponent e of seed * 1.1^e.                         *)
(***************************************************************************)
EXTENDS Integers, Sequences, FiniteSets, TLC

\* ------------------------------------------------------------------ bounds
MaxN == 3        \* largest proposal pool
MaxRuns == 2     \* calls of sample() on one instance
MaxT == 2        \* largest num_timesteps
DrawLevels == 2  \* the uniform draw of torch.rand takes the values m / DrawLevels

\* ----------------------------------------------------------------- numbers
NaN == -1
None == -2
\* log_image_fn left at its default
NoSink == "None"

IsNaN(v) == v = NaN
AnyNaN(s) == \E i \in 1..Len(s) : IsNaN(s[i])

Min(a, b) == IF a < b THEN a ELSE b

RECURSIVE GCD(_, _)
GCD(a, b) == IF b = 0 THEN a ELSE GCD(b, a % b)

\* a rational n / d, d > 0, n >= 0, in lowest terms
Frac(n, d) == LET g == GCD(n, d) IN <<n \div g, d \div g>>
FracLess(p, q) == p[1] * q[2] < q[1] * p[2]
FracEq(p, q) == p[1] * q[2] = q[1] * p[2]
FracAdd(p, q) == Frac(p[1] * q[2] + q[1] * p[2], p[2] * q[2])

RECURSIVE Pow2(_)
Pow2(a) == IF a = 0 THEN 1 ELSE 2 * Pow2(a - 1)

RECURSIVE SumSeq(_)
SumSeq(s) == IF s = <<>> THEN 0 ELSE s[1] + SumSeq(Tail(s))

RECURSIVE Cat(_)
Cat(ss) == IF ss = <<>> THEN <<>> ELSE ss[1] \o Cat(Tail(ss))

Range(s) == {s[i] : i \in 1..Len(s)}

\* torch.ones(n) / torch.ones_like
Ones(n) == [i \in 1..n |-> 1]
\* torch.arange(n)
Arange(n) == [i \in 1..n |-> i - 1]
\* x[indexes] for a 0-based index vector
Gather(x, indexes) == [k \in 1..Len(indexes) |-> x[indexes[k] + 1]]
\* x[i : i + n], i 0-based
Slice(s, i, n) == SubSeq(s, i + 1, Min(i + n, Len(s)))
\* [s[i : i + bs] for i in range(0, len(s), bs)]
BatchesDropTail(s, bs) ==
    [b \in 1..(Len(s) \div bs) |-> Slice(s, (b - 1) * bs, bs)]
Batches(s, bs) ==
    LET nb == (Len(s) + bs - 1) \div bs
    IN [b \in 1..nb |-> Slice(s, (b - 1) * bs, bs)]

\* ------------------------------------------------------------ the resampler
\* torch.softmax(logw): numerators 2^a over their sum
SoftmaxW(logw) == [i \in 1..Len(logw) |-> Pow2(logw[i])]
\* torch.cumsum(w, dim=0)
CumSum(w) == [i \in 1..Len(w) |-> SumSeq(SubSeq(w, 1, i))]
\* torch.searchsorted(c, v), side left: the number of bins c[i] / total < v
SearchSorted(c, total, v) ==
    Cardinality({i \in 1..Len(c) : c[i] * v[2] < v[1] * total})
\* u + torch.arange(N) / N with u = torch.rand(1) / N and torch.rand = m / DrawLevels
SystematicPositionsNoDivide(N, m) ==
    [k \in 1..N |-> <<m * N + (k - 1) * DrawLevels, N * DrawLevels>>]
SystematicPositions(N, m) ==
    [k \in 1..N |-> <<m + (k - 1) * DrawLevels, N * DrawLevels>>]
SystematicIndexes(logw, m) ==
    LET N == Len(logw)
        w == SoftmaxW(logw)
        c == CumSum(w)
        pos == SystematicPositions(N, m)
    IN [k \in 1..N |-> SearchSorted(c, SumSeq(w), pos[k])]
\* torch.multinomial(w, n, replacement=True): n indexes of positive weight
MultinomialOutcomes(w, n) ==
    [1..n -> {i - 1 : i \in {l \in 1..Len(w) : w[l] > 0}}]
\* the outcomes of torch.multinomial the driver runs explore: one particle
\* takes every slot, or every particle keeps its slot
MultinomialSome(w, n) ==
    {[k \in 1..n |-> i - 1] : i \in {l \in 1..Len(w) : w[l] > 0}}
        \cup (IF n = Len(w) THEN {Arange(n)} ELSE {})
\* the values of the random source one call of resample consumes
RandomDraws(systematic, x, logw, all) ==
    IF systematic THEN 0..(DrawLevels - 1)
    ELSE IF all THEN MultinomialOutcomes(SoftmaxW(logw), Len(x))
    ELSE MultinomialSome(SoftmaxW(logw), Len(x))
\* resample(x, logw): x[indexes] raises IndexError for an index out of range
ResampleIndexes(systematic, logw, draw) ==
    IF systematic THEN SystematicIndexes(logw, draw) ELSE draw
Resample(systematic, x, logw, draw) ==
    LET indexes == ResampleIndexes(systematic, logw, draw)
        ok == \A k \in 1..Len(indexes) : indexes[k] < Len(x)
    IN [ok |-> ok,
        indexes |-> indexes,
        x |-> IF ok THEN Gather(x, indexes) ELSE <<>>]

\* sampling_efficiency(A): the effective particle count (Sum w)^2 / Sum w^2
SamplingEfficiency(logw) ==
    LET w == SoftmaxW(logw)
    IN Frac(SumSeq(w) * SumSeq(w), SumSeq([i \in 1..Len(w) |-> w[i] * w[i]]))

\* -------------------------------------------------------- step-size control
UpdateStepSizeInclusive(eps, rate) ==
    IF 10 * rate[1] >= 6 * rate[2] THEN eps + 1
    ELSE IF 100 * rate[1] <= 55 * rate[2] THEN eps - 1
    ELSE eps
UpdateStepSize(eps, rate) ==
    IF 10 * rate[1] > 6 * rate[2] THEN eps + 1
    ELSE IF 100 * rate[1] < 55 * rate[2] THEN eps - 1
    ELSE eps
\* langevin_eps_fn(t): <<exponent, ramp>>, the step size is seed * 1.1^exponent * ramp
LangevinEpsFn(eps, t, warmup) ==
    IF FracLess(t, warmup)
    THEN <<eps, Frac(t[1] * warmup[2], t[2] * warmup[1])>>
    ELSE <<eps, <<1, 1>>>>
\* torch.linspace(0, 1, num_timesteps + 1): the values (i - 1) / T; the third
\* component of a time is 1 when 1e-9 was added to it
InitTimesteps(T) == [i \in 1..(T + 1) |-> <<i - 1, T, 0>>]

\* ------------------------------------------------------------------ energies
TargetEnergy(x) == [i \in 1..Len(x) |-> x[i]]
SourceEnergy(x) == [i \in 1..Len(x) |-> IF IsNaN(x[i]) THEN NaN ELSE MaxN - x[i]]
\* linear_energy_interpolation at t = j / T, times T
LinearEnergyInterpolation(t, x) ==
    [i \in 1..Len(x) |->
        IF IsNaN(x[i]) THEN NaN
        ELSE (t[2] - t[1]) * SourceEnergy(x)[i] + t[1] * TargetEnergy(x)[i]]

\* ------------------------------------------------------------------- kernels
\* mcmc_kernel is abstract: the model runs the driver with these particle-local,
\* deterministic kernels.  Each maps (t, x, logw, dt) of one particle to its new
\* coordinate, its new log-weight and whether its move was accepted.
Kernels == {"identity", "local", "localmean", "nanx", "nanw", "nanboth"}
KernelX(kind, x) ==
    IF kind = "identity" THEN x
    ELSE IF kind \in {"nanx", "nanboth"} /\ x = 2 THEN NaN
    ELSE (x % MaxN) + 1
KernelW(kind, x, logw) ==
    IF kind = "identity" THEN logw
    ELSE IF kind \in {"nanw", "nanboth"} /\ x = 2 THEN NaN
    ELSE (logw + x) % 4
KernelAccepted(kind, x) == IF kind = "identity" \/ x % 2 = 1 THEN 1 ELSE 0
\* kernels that move the particles as "local" does and report, as the one scalar
\* of the batch, an acceptance rate of 0.55, 0.58 or 0.6
RateKernels == {"rate55", "rate58", "rate60"}
KernelRate(kind) ==
    IF kind = "rate55" THEN <<11, 20>>
    ELSE IF kind = "rate58" THEN <<29, 50>>
    ELSE <<3, 5>>
\* the acceptance_rate tensor after .view(-1): one entry per particle, or the one
\* scalar mean of the batch
KernelAcceptance(kind, x) ==
    IF kind \in RateKernels THEN <<KernelRate(kind)>>
    ELSE IF kind \in {"identity", "localmean"}
    THEN <<Frac(SumSeq([i \in 1..Len(x) |-> KernelAccepted(kind, x[i])]), Len(x))>>
    ELSE [i \in 1..Len(x) |-> <<KernelAccepted(kind, x[i]), 1>>]
MCMCKernel(kind, t, x, logw, dt) ==
    [x |-> [i \in 1..Len(x) |-> KernelX(kind, x[i])],
     logw |-> [i \in 1..Len(x) |-> KernelW(kind, x[i], logw[i])],
     acceptance_rate |-> KernelAcceptance(kind, x)]

RECURSIVE FracSum(_)
FracSum(s) == IF s = <<>> THEN <<0, 1>> ELSE FracAdd(s[1], FracSum(Tail(s)))
\* tensor.mean()
Mean(s) == LET t == FracSum(s) IN Frac(t[1], t[2] * Len(s))

\* ------------------------------------------------------------------- state
VARIABLES
    cfg,                \* the constructor arguments held by self (langevin_eps apart)
    langevin_eps,       \* self.langevin_eps, as the exponent of 1.1
    input,              \* the proposal_samples argument of sample()
    pc,                 \* "call", "loop", "batch", "final", "done"
    proposal_samples,   \* proposal_samples after the energy cutoff
    X, A,               \* the particle coordinates and the smc weights
    particle_ids,       \* the lineage ids
    j,                  \* the index of the time step, -1 before the loop
    t_previous,
    X_batches, A_batches, batch_idx,
    batch_acceptance_rate_list,
    energy_batches,     \* target_energy_batches and interpolation_energy_batches
    series,             \* A_list, ESS_list, t_list, eps_list, ... of sample()
    result,             \* how sample() ended, and what it returned
    log,                \* history: the calls sample() made, in order
    ref,                \* history: the same run made with one batch per step
    rs,                 \* the arguments and the result of a direct call of resample()
    past                \* history: the earlier calls of sample() on this instance

vars == <<cfg, langevin_eps, input, pc, proposal_samples, X, A, particle_ids, j,
          t_previous, X_batches, A_batches, batch_idx, batch_acceptance_rate_list,
          energy_batches, series, result, log, ref, rs, past>>

driverVars == <<cfg, langevin_eps, input, pc, proposal_samples, X, A, particle_ids, j,
                t_previous, X_batches, A_batches, batch_idx,
                batch_acceptance_rate_list, energy_batches, series, result, log, ref,
                past>>

\* ---------------------------------------------------------- configurations
\* the proposal pools: coordinates 1..n ascending or descending, or ascending
\* with a NaN in the first or the last place
Pools ==
    UNION {
        {[i \in 1..n |-> i],
         [i \in 1..n |-> n + 1 - i],
         [i \in 1..n |-> IF i = 1 THEN NaN ELSE i],
         [i \in 1..n |-> IF i = n THEN NaN ELSE i]} : n \in 1..MaxN}

Thresholds == {-1, 2, MaxN + 1}

\* the configurations that vary the sampling itself
CoreConfigs ==
    [enabled : {TRUE},
     log_image_fn : {"sink"},
     batch_size : 1..MaxN,
     langevin_eps : {0},
     num_timesteps : 1..MaxT,
     ess_threshold : Thresholds,
     systematic_resampling : BOOLEAN,
     adaptive_step_size : {FALSE},
     warmup : {<<1, 10>>},
     do_energy_plots : {FALSE},
     log_freq : {1},
     input_energy_cutoff : {None, 1, 3},
     kernel : Kernels]

\* the configurations that vary the switches around it, on the full pool 1..MaxN
DiagConfigs ==
    [enabled : BOOLEAN,
     log_image_fn : {NoSink, "sink"},
     batch_size : 1..MaxN,
     langevin_eps : {0},
     num_timesteps : 1..MaxT,
     ess_threshold : {-1, MaxN + 1},
     systematic_resampling : {TRUE},
     adaptive_step_size : BOOLEAN,
     warmup : {<<1, 10>>, <<1, 2>>},
     do_energy_plots : BOOLEAN,
     log_freq : {1, 2},
     input_energy_cutoff : {None, 3},
     kernel : {"local", "localmean", "nanx"}]
DiagPools == {[i \in 1..MaxN |-> i]}

\* the configurations that vary the step-size control, on the full pool
ControlConfigs ==
    [enabled : {TRUE},
     log_image_fn : {"sink"},
     batch_size : 1..MaxN,
     langevin_eps : {0},
     num_timesteps : 1..MaxT,
     ess_threshold : {-1, MaxN + 1},
     systematic_resampling : {TRUE},
     adaptive_step_size : BOOLEAN,
     warmup : {<<1, 10>>},
     do_energy_plots : {FALSE},
     log_freq : {1},
     input_energy_cutoff : {None},
     kernel : RateKernels]

NoEvents == <<>>
Event(ev, jj, x, w, aux) == [ev |-> ev, j |-> jj, x |-> x, w |-> w, aux |-> aux]

Running == [outcome |-> "running", samples |-> <<>>, logits |-> <<>>]
Raised(error) == [outcome |-> error, samples |-> <<>>, logits |-> <<>>]
Returned(samples, logits) == [outcome |-> "returned", samples |-> samples, logits |-> logits]

NoSeries ==
    [A_list |-> <<>>, ESS_list |-> <<>>, t_list |-> <<>>, eps_list |-> <<>>,
     acceptance_rate_list |-> <<>>, survived_linages |-> <<>>,
     target_energy_list |-> <<>>, interpolation_energy_list |-> <<>>]
NoEnergyBatches == [target |-> <<>>, interpolation |-> <<>>]
NoResample == [called |-> FALSE, systematic |-> FALSE, x |-> <<>>, logw |-> <<>>,
               draw |-> 0, out |-> [ok |-> TRUE, indexes |-> <<>>, x |-> <<>>]]

\* the state after __init__
InitDriver(c, p) ==
    /\ cfg = c
    /\ langevin_eps = c.langevin_eps
    /\ input = p
    /\ pc = "call"
    /\ proposal_samples = <<>>
    /\ X = <<>>
    /\ A = <<>>
    /\ particle_ids = <<>>
    /\ j = -1
    /\ t_previous = <<0, 1, 0>>
    /\ X_batches = <<>>
    /\ A_batches = <<>>
    /\ batch_idx = 0
    /\ batch_acceptance_rate_list = <<>>
    /\ energy_batches = NoEnergyBatches
    /\ series = NoSeries
    /\ result = Running
    /\ log = NoEvents
    /\ ref = [X |-> <<>>, A |-> <<>>, result |-> Running]
    /\ past = <<>>

Init ==
    /\ \/ \E c \in CoreConfigs, p \in Pools : InitDriver(c, p)
       \/ \E c \in DiagConfigs, p \in DiagPools : InitDriver(c, p)
       \/ \E c \in ControlConfigs, p \in DiagPools : InitDriver(c, p)
    /\ rs = NoResample

\* ------------------------------------------------------ the steps of sample()
TimeNext(jj) == InitTimesteps(cfg.num_timesteps)[jj + 2]
Time(jj) == InitTimesteps(cfg.num_timesteps)[jj + 1]
\* t + 1e-9 on a float32 tensor: from t = 1/32 on the sum rounds back to t
AddEps(t) == IF 32 * t[1] >= t[2] THEN t ELSE <<t[1], t[2], 1>>

\* particle_ids.unique().numel() / len(particle_ids)
UniqueRatio(ids) == Frac(Cardinality(Range(ids)), Len(ids))

\* the calls of the energy functions made for one energy-plot entry
TargetEnergyEvents(batches, jj) ==
    [b \in 1..Len(batches) |-> Event("target_energy", jj, batches[b], <<>>, <<>>)]
InterpolationEvents(batches, jj) ==
    Cat([b \in 1..Len(batches) |->
            <<Event("source_energy", jj, batches[b], <<>>, <<>>),
              Event("target_energy", jj, batches[b], <<>>, <<>>)>>])
EnergyPlotEvents(batches, jj) ==
    TargetEnergyEvents(batches, jj) \o InterpolationEvents(batches, jj)
TargetEnergyEntry(batches) ==
    Cat([b \in 1..Len(batches) |-> TargetEnergy(batches[b])])
InterpolationEntry(batches, t) ==
    Cat([b \in 1..Len(batches) |-> LinearEnergyInterpolation(t, batches[b])])

\* proposal_samples[proposal_samples_energy < self.input_energy_cutoff]
EnergyCutoffInclusive(samples, cutoff) ==
    SelectSeq(samples, LAMBDA v : ~IsNaN(v) /\ TargetEnergy(<<v>>)[1] <= cutoff)
EnergyCutoff(samples, cutoff) ==
    LET e == TargetEnergy(samples)
        Keep(i) == ~IsNaN(e[i]) /\ e[i] < cutoff
        RECURSIVE Filter(_)
        Filter(i) ==
            IF i > Len(samples) THEN <<>>
            ELSE (IF Keep(i) THEN <<samples[i]>> ELSE <<>>) \o Filter(i + 1)
    IN Filter(1)

\* if not self.enabled: return None, None
ShortCircuitNever == FALSE
ShortCircuit == ~cfg.enabled

\* sample() with enabled = False
SampleDisabled ==
    /\ pc = "call"
    /\ ShortCircuit
    /\ result' = [outcome |-> "skipped", samples |-> None, logits |-> None]
    /\ pc' = "done"
    /\ UNCHANGED <<cfg, langevin_eps, input, proposal_samples, X, A, particle_ids, j,
                   t_previous, X_batches, A_batches, batch_idx,
                   batch_acceptance_rate_list, energy_batches, series, log, ref, rs, past>>

\* sample() up to the stepping loop
SampleInit ==
    /\ pc = "call"
    /\ ~ShortCircuit
    /\ LET cut == cfg.input_energy_cutoff # None
           filtered == IF cut THEN EnergyCutoff(input, cfg.input_energy_cutoff) ELSE input
           N == Len(filtered)
           batches == Batches(filtered, cfg.batch_size)
           cutEvents == IF cut THEN <<Event("target_energy", j, input, <<>>, <<>>)>>
                        ELSE <<>>
           empty == cfg.do_energy_plots /\ batches = <<>>
           res == IF empty THEN Raised("ValueError: need at least one array to concatenate")
                  ELSE Running
       IN /\ proposal_samples' = filtered
          /\ X' = filtered
          /\ A' = Ones(N)
          /\ particle_ids' = IF empty THEN <<>> ELSE Arange(N)
          /\ series' =
                [A_list |-> <<Ones(N)>>,
                 ESS_list |-> << <<1, 1>> >>,
                 t_list |-> <<Time(0)>>,
                 eps_list |-> <<LangevinEpsFn(langevin_eps, <<0, 1>>, cfg.warmup)>>,
                 acceptance_rate_list |-> << <<1, 1>> >>,
                 survived_linages |-> << <<1, 1>> >>,
                 target_energy_list |->
                    IF cfg.do_energy_plots /\ ~empty
                    THEN <<TargetEnergyEntry(batches)>> ELSE <<>>,
                 interpolation_energy_list |->
                    IF cfg.do_energy_plots /\ ~empty
                    THEN <<InterpolationEntry(batches, Time(0))>> ELSE <<>>]
          /\ log' = log \o cutEvents
                        \o (IF cfg.do_energy_plots /\ ~empty
                            THEN EnergyPlotEvents(batches, j) ELSE <<>>)
                        \o (IF empty THEN <<Event("raise", j, <<>>, <<>>, res.outcome)>>
                            ELSE <<>>)
          /\ X_batches' = IF cfg.do_energy_plots THEN batches ELSE <<>>
          /\ result' = res
          /\ ref' = [X |-> filtered, A |-> Ones(N), result |-> res]
          /\ pc' = IF empty THEN "done" ELSE "loop"
    /\ t_previous' = Time(0)
    /\ UNCHANGED <<cfg, langevin_eps, input, j, A_batches, batch_idx,
                   batch_acceptance_rate_list, energy_batches, rs, past>>

\* the head of one iteration of the stepping loop
StepBegin ==
    /\ pc = "loop"
    /\ X_batches' = Batches(X, cfg.batch_size)
    /\ A_batches' = Batches(A, cfg.batch_size)
    /\ energy_batches' = NoEnergyBatches
    /\ batch_acceptance_rate_list' = <<>>
    /\ batch_idx' = 0
    /\ j' = j + 1
    /\ pc' = "batch"
    /\ UNCHANGED <<cfg, langevin_eps, input, proposal_samples, X, A, particle_ids,
                   t_previous, series, result, log, ref, rs, past>>

\* dt = t - t_previous
Dt(t, tp) == <<t[1] - tp[1], t[2]>>

\* the stepping loop is inside its batch loop, at a batch still to process
AtBatch == pc = "batch" /\ batch_idx < Len(X_batches)

\* the condition that forwards the series to the sink
FlushDue(Xc, Ac, jj) ==
    \/ AnyNaN(Xc)
    \/ AnyNaN(Ac)
    \/ (jj + 1) % cfg.log_freq = 0
    \/ jj + 1 = cfg.num_timesteps
\* the series the flush hands to the sink, of the series before (old) and after
\* (new) the entries of the step are appended
FlushedSeriesAfterRecord(old, new) == new
FlushedSeries(old, new) == old
\* the condition of the resampling inside the loop
ResampleDueEveryStep(ESS, jj) == ~(jj + 1 = cfg.num_timesteps)
ResampleDueAtThreshold(ESS, jj) ==
    /\ ESS[1] <= cfg.ess_threshold * ESS[2]
    /\ ~(jj + 1 = cfg.num_timesteps)
ResampleDue(ESS, jj) ==
    /\ ESS[1] < cfg.ess_threshold * ESS[2]
    /\ ~(jj + 1 = cfg.num_timesteps)
\* A = torch.ones_like(A)
ResetWeights(Ac) == Ones(Len(Ac))
\* particle_ids = particle_ids[indexes.cpu()]
ReindexNone(ids, indexes) == ids
Reindex(ids, indexes) == Gather(ids, indexes)

\* the coordinates, the weights and the fate of the run after the part of a step
\* that follows the concatenation: flush, NaN checks, ESS, resampling
GlobalPhase(Xc, Ac, jj, draw) ==
    IF FlushDue(Xc, Ac, jj) /\ cfg.log_image_fn = NoSink
    THEN [X |-> Xc, A |-> Ac, result |-> Raised("TypeError: log_image_fn")]
    ELSE IF AnyNaN(Xc)
    THEN [X |-> Xc, A |-> Ac, result |-> Raised("ValueError: X has NaNs")]
    ELSE IF AnyNaN(Ac)
    THEN [X |-> Xc, A |-> Ac, result |-> Raised("ValueError: A has NaNs")]
    ELSE IF ResampleDue(SamplingEfficiency(Ac), jj)
    THEN LET r == Resample(cfg.systematic_resampling, Xc, Ac, draw)
         IN IF r.ok
            THEN [X |-> r.x, A |-> ResetWeights(Ac), result |-> Running]
            ELSE [X |-> Xc, A |-> Ac, result |-> Raised("IndexError")]
    ELSE [X |-> Xc, A |-> Ac, result |-> Running]

\* the random values the step's resampling consumes, if it resamples
StepDraws(Xc, Ac, jj) ==
    IF /\ ~(FlushDue(Xc, Ac, jj) /\ cfg.log_image_fn = NoSink)
       /\ ~AnyNaN(Xc)
       /\ ~AnyNaN(Ac)
       /\ ResampleDue(SamplingEfficiency(Ac), jj)
    THEN RandomDraws(cfg.systematic_resampling, Xc, Ac, FALSE)
    ELSE {0}

\* smc_samples, smc_logits = X, A after the final resampling
FinalPhaseReindexed(Xf, Af, draw) ==
    LET r == Resample(cfg.systematic_resampling, Xf, Af, draw)
    IN IF r.ok THEN Returned(r.x, Gather(Af, r.indexes)) ELSE Raised("IndexError")
FinalPhase(Xf, Af, draw) ==
    LET r == Resample(cfg.systematic_resampling, Xf, Af, draw)
    IN IF r.ok THEN Returned(r.x, Af) ELSE Raised("IndexError")

\* one step of the run that has a single batch: the whole pool goes through the
\* kernel in one call
RefStep(r, jj, draw) ==
    IF r.result.outcome # "running" THEN r
    ELSE IF r.X = <<>>
    THEN [r EXCEPT !.result = Raised("RuntimeError: torch.cat of an empty list")]
    ELSE IF AnyNaN(r.X)
    THEN [r EXCEPT !.result = Raised("ValueError: X contains NaNs")]
    ELSE LET t == Time(jj)
             k == MCMCKernel(cfg.kernel, t, r.X, r.A, Dt(t, t_previous))
         IN GlobalPhase(k.x, k.logw, jj, draw)
RefFinal(r, draw) ==
    IF r.result.outcome # "running" THEN r
    ELSE [r EXCEPT !.result = FinalPhase(r.X, r.A, draw)]

\* one batch whose coordinates hold a NaN: raise ValueError("X contains NaNs")
BatchAbort ==
    /\ AtBatch
    /\ AnyNaN(X_batches[batch_idx + 1])
    /\ result' = Raised("ValueError: X contains NaNs")
    /\ log' = Append(log, Event("raise", j, <<>>, <<>>, "ValueError: X contains NaNs"))
    /\ ref' = RefStep(ref, j, 0)
    /\ pc' = "done"
    /\ UNCHANGED <<cfg, langevin_eps, input, proposal_samples, X, A, particle_ids, j,
                   t_previous, X_batches, A_batches, batch_idx,
                   batch_acceptance_rate_list, energy_batches, series, rs, past>>

\* one batch through the kernel
BatchKernel ==
    /\ AtBatch
    /\ ~AnyNaN(X_batches[batch_idx + 1])
    /\ LET b == batch_idx + 1
           t == Time(j)
           dt == Dt(t, t_previous)
           k == MCMCKernel(cfg.kernel, t, X_batches[b], A_batches[b], dt)
       IN /\ X_batches' = [X_batches EXCEPT ![b] = k.x]
          /\ A_batches' = [A_batches EXCEPT ![b] = k.logw]
          /\ batch_acceptance_rate_list' =
                Append(batch_acceptance_rate_list, k.acceptance_rate)
          /\ energy_batches' =
                IF cfg.do_energy_plots
                THEN [target |-> Append(energy_batches.target, TargetEnergy(k.x)),
                      interpolation |->
                        Append(energy_batches.interpolation,
                               LinearEnergyInterpolation(t, k.x))]
                ELSE energy_batches
          /\ log' = Append(log, Event("kernel", j, X_batches[b], A_batches[b], <<t, dt>>))
                        \o (IF cfg.do_energy_plots
                            THEN EnergyPlotEvents(<<k.x>>, j) ELSE <<>>)
    /\ batch_idx' = batch_idx + 1
    /\ UNCHANGED <<cfg, langevin_eps, input, pc, proposal_samples, X, A, particle_ids,
                   j, t_previous, series, result, ref, rs, past>>

\* torch.cat(X_batches, dim=0)
RECURSIVE CatReversed(_)
CatReversed(ss) == IF ss = <<>> THEN <<>> ELSE CatReversed(Tail(ss)) \o ss[1]
ConcatBatches(ss) == Cat(ss)

\* the rest of one iteration, after the batch loop
StepEnd ==
    /\ pc = "batch"
    /\ batch_idx = Len(X_batches)
    /\ IF X_batches = <<>>
       THEN /\ result' = Raised("RuntimeError: torch.cat of an empty list")
            /\ log' = Append(log, Event("raise", j, <<>>, <<>>,
                                        "RuntimeError: torch.cat of an empty list"))
            /\ ref' = RefStep(ref, j, 0)
            /\ pc' = "done"
            /\ UNCHANGED <<langevin_eps, X, A, particle_ids, t_previous, X_batches,
                           series>>
       ELSE LET Xc == ConcatBatches(X_batches)
                Ac == ConcatBatches(A_batches)
                acceptance_rate == Mean(Cat(batch_acceptance_rate_list))
                eps1 == IF cfg.adaptive_step_size
                        THEN UpdateStepSize(langevin_eps, acceptance_rate)
                        ELSE langevin_eps
                t == Time(j)
                flush == FlushDue(Xc, Ac, j)
                ESS == SamplingEfficiency(Ac)
                eps == LangevinEpsFn(eps1, t, cfg.warmup)
                \* the entries of the step, appended after the NaN checks
                series1 ==
                    [A_list |-> Append(series.A_list, Ac),
                     ESS_list |-> Append(series.ESS_list, ESS),
                     t_list |-> Append(series.t_list, t),
                     eps_list |-> Append(series.eps_list, eps),
                     acceptance_rate_list |->
                        Append(series.acceptance_rate_list, acceptance_rate),
                     survived_linages |->
                        Append(series.survived_linages, UniqueRatio(particle_ids)),
                     target_energy_list |->
                        IF cfg.do_energy_plots
                        THEN Append(series.target_energy_list, Cat(energy_batches.target))
                        ELSE series.target_energy_list,
                     interpolation_energy_list |->
                        IF cfg.do_energy_plots
                        THEN Append(series.interpolation_energy_list,
                                    Cat(energy_batches.interpolation))
                        ELSE series.interpolation_energy_list]
                before ==
                    (IF cfg.adaptive_step_size
                     THEN <<Event("controller", j, <<langevin_eps>>, <<eps1>>,
                                  acceptance_rate)>>
                     ELSE <<>>)
                    \o (IF flush /\ cfg.log_image_fn # NoSink
                        THEN <<Event("flush", j, Xc, Ac, FlushedSeries(series, series1))>>
                        ELSE <<>>)
            IN \E draw \in StepDraws(Xc, Ac, j) :
                LET g == GlobalPhase(Xc, Ac, j, draw)
                    alive == g.result.outcome = "running"
                    checked == ~(flush /\ cfg.log_image_fn = NoSink)
                                /\ ~AnyNaN(Xc) /\ ~AnyNaN(Ac)
                    resampling == checked /\ ResampleDue(ESS, j)
                    r == Resample(cfg.systematic_resampling, Xc, Ac, draw)
                    ids1 == IF resampling /\ r.ok
                            THEN Reindex(particle_ids, r.indexes) ELSE particle_ids
                    rebatched == Batches(g.X, cfg.batch_size)
                    \* the second snapshot, at t + 1e-9
                    series2 ==
                        [A_list |-> Append(series1.A_list, g.A),
                         ESS_list |-> Append(series1.ESS_list, SamplingEfficiency(g.A)),
                         t_list |-> Append(series1.t_list, AddEps(t)),
                         eps_list |-> Append(series1.eps_list, eps),
                         acceptance_rate_list |->
                            Append(series1.acceptance_rate_list, acceptance_rate),
                         survived_linages |->
                            Append(series1.survived_linages, UniqueRatio(ids1)),
                         target_energy_list |->
                            IF cfg.do_energy_plots
                            THEN Append(series1.target_energy_list,
                                        TargetEnergyEntry(rebatched))
                            ELSE series1.target_energy_list,
                         interpolation_energy_list |->
                            IF cfg.do_energy_plots
                            THEN Append(series1.interpolation_energy_list,
                                        InterpolationEntry(rebatched, AddEps(t)))
                            ELSE series1.interpolation_energy_list]
                IN /\ X' = g.X
                   /\ A' = g.A
                   /\ result' = g.result
                   /\ langevin_eps' = eps1
                   /\ particle_ids' = ids1
                   /\ series' = IF ~checked THEN series
                                ELSE IF resampling /\ r.ok THEN series2
                                ELSE series1
                   /\ X_batches' = IF resampling /\ r.ok THEN rebatched ELSE X_batches
                   /\ log' = log \o before
                        \o (IF checked THEN <<Event("ess", j, <<>>, Ac, ESS)>> ELSE <<>>)
                        \o (IF resampling
                            THEN <<Event("resample", j, Xc, Ac,
                                         [indexes |-> r.indexes, final |-> FALSE])>>
                            ELSE <<>>)
                        \o (IF resampling /\ r.ok
                            THEN <<Event("ess_after", j, <<>>, g.A, SamplingEfficiency(g.A))>>
                            ELSE <<>>)
                        \o (IF resampling /\ r.ok /\ cfg.do_energy_plots
                            THEN EnergyPlotEvents(rebatched, j) ELSE <<>>)
                        \o (IF alive THEN <<>>
                            ELSE <<Event("raise", j, <<>>, <<>>, g.result.outcome)>>)
                   /\ ref' = RefStep(ref, j, draw)
                   /\ t_previous' = IF alive THEN t ELSE t_previous
                   /\ pc' = IF ~alive THEN "done"
                            ELSE IF j + 1 = cfg.num_timesteps THEN "final"
                            ELSE "loop"
    /\ UNCHANGED <<cfg, input, proposal_samples, j, A_batches, batch_idx,
                   batch_acceptance_rate_list, energy_batches, rs, past>>

\* the final resampling and the return
FinalResample ==
    /\ pc = "final"
    /\ \E draw \in RandomDraws(cfg.systematic_resampling, X, A, FALSE) :
        LET r == Resample(cfg.systematic_resampling, X, A, draw)
            f == FinalPhase(X, A, draw)
        IN /\ X' = IF r.ok THEN r.x ELSE X
           /\ particle_ids' = IF r.ok THEN Reindex(particle_ids, r.indexes)
                              ELSE particle_ids
           /\ result' = f
           /\ log' = log \o <<Event("resample", j, X, A,
                                      [indexes |-> r.indexes, final |-> TRUE])>>
                        \o (IF r.ok THEN <<Event("return", j, r.x, A, <<>>)>>
                            ELSE <<Event("raise", j, <<>>, <<>>, f.outcome)>>)
           /\ ref' = RefFinal(ref, draw)
    /\ pc' = "done"
    /\ UNCHANGED <<cfg, langevin_eps, input, proposal_samples, A, j, t_previous,
                   X_batches, A_batches, batch_idx, batch_acceptance_rate_list,
                   energy_batches, series, rs, past>>

Next ==
    \/ SampleDisabled
    \/ SampleInit
    \/ StepBegin
    \/ BatchAbort
    \/ BatchKernel
    \/ StepEnd
    \/ FinalResample

Spec == Init /\ [][Next]_vars

\* ------------------------------- sample() called again on the same instance
\* the configurations of an instance that is sampled from more than once
RunConfigs ==
    [enabled : BOOLEAN,
     log_image_fn : {"sink"},
     batch_size : 1..MaxN,
     langevin_eps : {0},
     num_timesteps : 1..MaxT,
     ess_threshold : {-1, MaxN + 1},
     systematic_resampling : {TRUE},
     adaptive_step_size : BOOLEAN,
     warmup : {<<1, 10>>},
     do_energy_plots : {FALSE},
     log_freq : {1},
     input_energy_cutoff : {None},
     kernel : {"local", "localmean"} \cup RateKernels]
RunPools == DiagPools \cup {[i \in 1..MaxN |-> IF i = 1 THEN NaN ELSE i]}
InitRuns ==
    /\ \E c \in RunConfigs, p \in RunPools : InitDriver(c, p)
    /\ rs = NoResample
\* the next call of sample(), with the same arguments, once the call before has
\* ended: the locals of sample() start afresh, the fields of self are as the
\* call before left them
SampleAgain ==
    /\ pc = "done"
    /\ Len(past) + 1 < MaxRuns
    /\ past' = Append(past, [result |-> result, series |-> series, log |-> log,
                             langevin_eps |-> langevin_eps])
    /\ pc' = "call"
    /\ proposal_samples' = <<>>
    /\ X' = <<>>
    /\ A' = <<>>
    /\ particle_ids' = <<>>
    /\ j' = -1
    /\ t_previous' = <<0, 1, 0>>
    /\ X_batches' = <<>>
    /\ A_batches' = <<>>
    /\ batch_idx' = 0
    /\ batch_acceptance_rate_list' = <<>>
    /\ energy_batches' = NoEnergyBatches
    /\ series' = NoSeries
    /\ result' = Running
    /\ log' = NoEvents
    /\ ref' = [X |-> <<>>, A |-> <<>>, result |-> Running]
    /\ UNCHANGED <<cfg, langevin_eps, input, rs>>
NextRuns ==
    \/ Next
    \/ SampleAgain
SpecRuns == InitRuns /\ [][NextRuns]_vars

\* ------------------------------------------- resample() called on its own
\* resample(x, logw) for every pool, every weight vector of its length, both
\* schemes and every value of the random source
ResampleInputs ==
    UNION {[1..n -> 0..2] : n \in 1..MaxN}
InitResample ==
    /\ \E c \in CoreConfigs : InitDriver(c, <<>>) /\ c.batch_size = 1
          /\ c.num_timesteps = 1 /\ c.ess_threshold = -1 /\ c.kernel = "identity"
          /\ c.input_energy_cutoff = None
    /\ \E logw \in ResampleInputs :
          rs = [NoResample EXCEPT !.systematic = cfg.systematic_resampling,
                                  !.x = [i \in 1..Len(logw) |-> i],
                                  !.logw = logw]
ResampleCall ==
    /\ ~rs.called
    /\ \E draw \in RandomDraws(rs.systematic, rs.x, rs.logw, TRUE) :
          rs' = [rs EXCEPT !.called = TRUE,
                           !.draw = draw,
                           !.out = Resample(rs.systematic, rs.x, rs.logw, draw)]
    /\ UNCHANGED driverVars
NextResample == ResampleCall
SpecResample == InitResample /\ [][NextResample]_vars

\* ------------------------------------------------------------------ history
EventsAt(kind) == {k \in 1..Len(log) : log[k].ev = kind}
KernelEventsOf(jj) == SelectSeq(log, LAMBDA e : e.ev = "kernel" /\ e.j = jj)
LoopResamples == {k \in EventsAt("resample") : ~log[k].aux.final}
FinalResamples == {k \in EventsAt("resample") : log[k].aux.final}
\* the pool the kernel was given at step jj, batch after batch
KernelInputX(jj) == Cat([k \in 1..Len(KernelEventsOf(jj)) |-> KernelEventsOf(jj)[k].x])
KernelInputW(jj) == Cat([k \in 1..Len(KernelEventsOf(jj)) |-> KernelEventsOf(jj)[k].w])
\* what the kernel makes of that pool, particle by particle
KernelOutput(jj) ==
    [x |-> [i \in 1..Len(KernelInputX(jj)) |-> KernelX(cfg.kernel, KernelInputX(jj)[i])],
     logw |-> [i \in 1..Len(KernelInputX(jj)) |->
                 KernelW(cfg.kernel, KernelInputX(jj)[i], KernelInputW(jj)[i])]]
N == Len(proposal_samples)
Completed == result.outcome = "returned"

\* C1: in a run that returns, the final resampling is executed exactly once, after
\* every kernel call and ESS computation of the last step T-1 and right before
\* the return; with a negative ess_threshold it is the only call of the
\* resampler in the run; the run returns N particles.
C1_FinalResamplingOnce ==
    Completed =>
        /\ Cardinality(FinalResamples) = 1
        /\ FinalResamples = {Len(log) - 1}
        /\ log[Len(log)].ev = "return"
        /\ log[Len(log) - 1].j = cfg.num_timesteps - 1
        /\ \A k \in 1..Len(log) :
              log[k].ev \in {"kernel", "ess", "ess_after"} => k < Len(log) - 1
        /\ \A jj \in 0..(cfg.num_timesteps - 1) :
              \E k \in EventsAt("ess") : log[k].j = jj
        /\ (cfg.ess_threshold < 0 => Cardinality(EventsAt("resample")) = 1)
        /\ Len(result.samples) = N
        /\ N = Len(log[Len(log) - 1].x)

\* a run with a negative threshold and two steps returns with weights that are
\* not uniform at the end
C1_Witness ==
    /\ Completed
    /\ cfg.ess_threshold < 0
    /\ cfg.num_timesteps = MaxT
    /\ N = MaxN
    /\ \E k \in EventsAt("ess") : log[k].aux[1] < N * log[k].aux[2]

Last(s) == s[Len(s)]
MaxOf(S) == CHOOSE m \in S : \A n \in S : n <= m
NumBatches == (N + cfg.batch_size - 1) \div cfg.batch_size
EssBelowThreshold(w) ==
    SamplingEfficiency(w)[1] < cfg.ess_threshold * SamplingEfficiency(w)[2]

\* C2: inside the loop the resampler is invoked at step j exactly when the ESS of
\* the concatenated weights of step j is strictly below ess_threshold and j is
\* not the last step; at most once per step, after all batches of the step went
\* through the kernel and were concatenated; never with a negative threshold.
C2_LoopResamplingRule ==
    /\ \A k \in EventsAt("ess") :
          /\ log[k].w = KernelOutput(log[k].j).logw
          /\ Len(KernelEventsOf(log[k].j)) = NumBatches
          /\ (\E r \in LoopResamples : log[r].j = log[k].j)
                <=> (EssBelowThreshold(log[k].w)
                        /\ log[k].j + 1 # cfg.num_timesteps)
    /\ \A r \in LoopResamples :
          /\ r - 1 \in EventsAt("ess")
          /\ log[r - 1].j = log[r].j
          /\ log[r].w = log[r - 1].w
          /\ \A k \in EventsAt("kernel") : log[k].j = log[r].j => k < r
          /\ \A q \in LoopResamples : log[q].j = log[r].j => q = r
    /\ (cfg.ess_threshold < 0 => LoopResamples = {})

\* a step of several batches resamples because its ESS is below a threshold that
\* the ESS of a uniform pool is not below
C2_Witness ==
    \E r \in LoopResamples :
        /\ cfg.ess_threshold = 2
        /\ N >= 2
        /\ Len(KernelEventsOf(log[r].j)) >= 2
        /\ log[r].w # Ones(N)

\* C3 as claimed: after any resampling, the final one included, the weights the
\* driver holds are all ones and their ESS is N, until the kernel runs again.
C3_WeightsResetAfterAnyResampling ==
    (/\ EventsAt("resample") # {}
     /\ result.outcome \in {"running", "returned"}
     /\ \A k \in EventsAt("kernel") : k < MaxOf(EventsAt("resample")))
        => /\ A = Ones(Len(A))
           /\ FracEq(SamplingEfficiency(A), <<Len(A), 1>>)

\* C4: the returned weights are the concatenated weights the kernel produced at
\* the last step, in the order before the final resampling: weight i is that of
\* particle i of the pool the final resampling drew from, while returned
\* particle k is particle indexes[k] of that pool.
C4_ReturnedWeightsNotReindexed ==
    Completed =>
        LET last == cfg.num_timesteps - 1
            out == KernelOutput(last)
            fin == log[Len(log) - 1]
        IN /\ fin.ev = "resample" /\ fin.aux.final
           /\ result.logits = out.logw
           /\ result.logits = fin.w
           /\ result.samples = Gather(out.x, fin.aux.indexes)
           /\ \A i \in 1..N :
                 result.logits[i] =
                    KernelW(cfg.kernel, KernelInputX(last)[i], KernelInputW(last)[i])

\* a run returns weights that differ from the weights of the particles it returns
C4_Witness ==
    /\ Completed
    /\ result.logits # Ones(N)
    /\ result.logits # Gather(result.logits, log[Len(log) - 1].aux.indexes)

\* C5: from INIT on, the coordinates, the weights and the lineage ids all have
\* the length N of the pool left by the energy cutoff, as have the arrays given
\* to the ESS and to the resampler, every recorded weight snapshot, the index
\* vector of every resampling and the returned particles and weights.
C5_LengthsAligned ==
    (pc # "call" /\ cfg.enabled /\ result.outcome \in {"running", "returned"}) =>
        /\ N = Cardinality({i \in 1..Len(input) :
                    \/ cfg.input_energy_cutoff = None
                    \/ ~IsNaN(input[i]) /\ input[i] < cfg.input_energy_cutoff})
        /\ Len(X) = N
        /\ Len(A) = N
        /\ Len(particle_ids) = N
        /\ \A k \in 1..Len(series.A_list) : Len(series.A_list[k]) = N
        /\ \A k \in EventsAt("ess") : Len(log[k].w) = N
        /\ \A k \in EventsAt("resample") :
              /\ Len(log[k].x) = N
              /\ Len(log[k].w) = N
              /\ Len(log[k].aux.indexes) = N
        /\ (pc = "batch" => Len(Cat(X_batches)) = N /\ Len(Cat(A_batches)) = N)
        /\ (Completed => Len(result.samples) = N /\ Len(result.logits) = N)

\* a run on a pool the cutoff has shrunk, in batches, with a resampling in the
\* loop, returns
C5_Witness ==
    /\ Completed
    /\ N < Len(input)
    /\ N >= 2
    /\ cfg.batch_size < N
    /\ LoopResamples # {}

\* C8: the run and the run with a single batch per step (ref) hold the same
\* coordinates and weights after every step and end the same way with the same
\* particles and weights; in each step the batches given to the kernel are the
\* pool in its order, every particle once, and the concatenated outputs are the
\* kernel's outputs for the pool in that order.
C8_BatchingInvariance ==
    /\ (pc \in {"loop", "final"} => ref.X = X /\ ref.A = A /\ ref.result = result)
    /\ (pc = "done" /\ cfg.enabled => ref.result = result)
    /\ (pc = "batch" /\ batch_idx = Len(X_batches) =>
            /\ KernelInputX(j) = X
            /\ KernelInputW(j) = A
            /\ ConcatBatches(X_batches) = KernelOutput(j).x
            /\ ConcatBatches(A_batches) = KernelOutput(j).logw)

\* a run in batches of unequal sizes, with a resampling in the loop, returns what
\* the single-batch run returns
C8_Witness ==
    /\ Completed
    /\ cfg.kernel = "local"
    /\ N % cfg.batch_size # 0
    /\ cfg.batch_size < N
    /\ LoopResamples # {}
    /\ result.samples # proposal_samples
    /\ ref.result = result

C7_SystematicUniformIsIdentity ==
    (/\ rs.called
     /\ rs.systematic
     /\ \A i \in 1..Len(rs.logw) : rs.logw[i] = rs.logw[1])
        => /\ \A k \in 1..(Len(rs.x) - 1) :
                 rs.out.indexes[k + 1] = rs.out.indexes[k] + 1
           /\ Range(rs.out.indexes) = 0..(Len(rs.x) - 1)

\* C7 for the offsets u > 0 only
C7_SystematicUniformPositiveOffset ==
    (/\ rs.called
     /\ rs.systematic
     /\ rs.draw > 0
     /\ \A i \in 1..Len(rs.logw) : rs.logw[i] = rs.logw[1])
        => rs.out.indexes = Arange(Len(rs.x))

\* the mean acceptance over all particles of the pool given to the kernel at step jj
MeanAcceptance(jj) ==
    IF cfg.kernel \in RateKernels THEN KernelRate(cfg.kernel)
    ELSE Mean([i \in 1..Len(KernelInputX(jj)) |->
            <<KernelAccepted(cfg.kernel, KernelInputX(jj)[i]), 1>>])
StepRecorded == pc \in {"loop", "final"} /\ j >= 0

\* C9 as claimed: for every batch size and both forms of the kernel's acceptance
\* (per particle, or one mean per batch) the acceptance rate recorded at a step
\* and given to the step-size controller is the mean acceptance over all N
\* particles.
C9_AcceptanceRateIsGlobalMean ==
    /\ StepRecorded =>
          FracEq(Last(series.acceptance_rate_list), MeanAcceptance(j))
    /\ \A k \in EventsAt("controller") :
          FracEq(log[k].aux, MeanAcceptance(log[k].j))

\* C9 for the kernels that return one acceptance indicator per particle
C9_PerParticleAcceptance ==
    cfg.kernel \notin {"identity", "localmean"} =>
        /\ StepRecorded =>
              FracEq(Last(series.acceptance_rate_list), MeanAcceptance(j))
        /\ \A k \in EventsAt("controller") :
              FracEq(log[k].aux, MeanAcceptance(log[k].j))

\* C9 for the batch sizes that split the pool into batches of equal size
C9_EqualBatches ==
    (N > 0 /\ (N % cfg.batch_size = 0 \/ cfg.batch_size >= N)) =>
        /\ StepRecorded =>
              FracEq(Last(series.acceptance_rate_list), MeanAcceptance(j))
        /\ \A k \in EventsAt("controller") :
              FracEq(log[k].aux, MeanAcceptance(log[k].j))

NaNErrors == {"ValueError: X contains NaNs", "ValueError: X has NaNs"}
\* C10 as claimed: a step whose coordinates or weights hold a NaN ends the run
\* with the coordinates error if the coordinates hold a NaN and with the weights
\* error otherwise; no state with a NaN is recorded in the series, given to the
\* ESS, the resampler or the kernel, carried to a later step, or returned.
C10_NaNAbortsRun ==
    /\ (pc = "done" /\ cfg.enabled /\ AnyNaN(X)) => result.outcome \in NaNErrors
    /\ (pc = "done" /\ cfg.enabled /\ ~AnyNaN(X) /\ AnyNaN(A)) =>
            result.outcome = "ValueError: A has NaNs"
    /\ (pc \in {"loop", "final"} /\ j >= 0) => ~AnyNaN(X) /\ ~AnyNaN(A)
    /\ \A k \in 1..Len(series.A_list) : ~AnyNaN(series.A_list[k])
    /\ \A k \in EventsAt("kernel") : ~AnyNaN(log[k].x) /\ ~AnyNaN(log[k].w)
    /\ \A k \in EventsAt("ess") : ~AnyNaN(log[k].w)
    /\ \A k \in EventsAt("resample") : ~AnyNaN(log[k].x) /\ ~AnyNaN(log[k].w)
    /\ Completed => ~AnyNaN(result.samples) /\ ~AnyNaN(result.logits)

\* C10 for the runs that have a sink
C10_NaNAbortsRunWithSink ==
    cfg.log_image_fn # NoSink => C10_NaNAbortsRun

\* the ways a call of sample() may end: a return, the skip of a disabled sampler,
\* or one of the fatal NaN errors
FatalNaNErrors == NaNErrors \cup {"ValueError: A has NaNs"}
\* C11 as claimed: on a non-empty pool every call of sample() ends in one of
\* three ways, whatever the configuration, a sampler without a sink (log_image_fn
\* left at None) included: it returns particles and weights, it raises the fatal
\* NaN error, or it is skipped because the sampler is disabled.
C11_ThreeOutcomes ==
    (pc = "done" /\ (cfg.enabled => N > 0)) =>
        \/ Completed /\ Len(result.samples) = N /\ Len(result.logits) = N
        \/ result.outcome \in FatalNaNErrors
        \/ result.outcome = "skipped" /\ ~cfg.enabled

\* C11 for the samplers that have a sink
C11_ThreeOutcomesWithSink ==
    cfg.log_image_fn # NoSink => C11_ThreeOutcomes

\* C12: a disabled sampler returns (None, None) at once: sample() makes no call
\* of the kernel, of the energy functions (the energy cutoff included), of the
\* resampler, of the step-size controller or of the sink, records nothing and
\* leaves the step size as configured.
C12_DisabledReturnsNone ==
    ~cfg.enabled =>
        /\ pc \in {"call", "done"}
        /\ log = NoEvents
        /\ series = NoSeries
        /\ langevin_eps = cfg.langevin_eps
        /\ proposal_samples = <<>>
        /\ (pc = "done" =>
                /\ result.outcome = "skipped"
                /\ result.samples = None
                /\ result.logits = None)

\* a disabled sampler with an energy cutoff, the adaptive step size, the energy
\* plots and a sink has returned
C12_Witness ==
    /\ pc = "done"
    /\ ~cfg.enabled
    /\ cfg.input_energy_cutoff # None
    /\ cfg.adaptive_step_size
    /\ cfg.do_energy_plots
    /\ cfg.log_image_fn # NoSink
    /\ result.samples = None

\* the state right after INIT: the stepping loop has not begun
AfterInit == pc = "loop" /\ j = -1
\* the calls of the target energy made before the stepping loop
InitTargetEnergyCalls == SelectSeq(log, LAMBDA e : e.ev = "target_energy" /\ e.j = -1)
\* the input particles whose target energy is strictly below the cutoff, in order
StrictlyBelowCutoff ==
    SelectSeq(input, LAMBDA v : ~IsNaN(TargetEnergy(<<v>>)[1])
                                  /\ TargetEnergy(<<v>>)[1] < cfg.input_energy_cutoff)
CutoffFilterRule ==
    /\ (cfg.input_energy_cutoff # None =>
            /\ proposal_samples = StrictlyBelowCutoff
            /\ \A i \in 1..N : TargetEnergy(proposal_samples)[i] # cfg.input_energy_cutoff
            /\ log[1].ev = "target_energy" /\ log[1].x = input)
    /\ (cfg.input_energy_cutoff = None => proposal_samples = input)
    /\ (AfterInit =>
            /\ X = proposal_samples
            /\ A = Ones(N)
            /\ particle_ids = Arange(N)
            /\ \A i \in 1..N : particle_ids[i] = i - 1)

\* C13 as claimed: with a cutoff the pool after INIT is the input particles of
\* target energy strictly below it, in their order; weights and lineage ids
\* 0..N'-1 are initialised over the filtered pool; without a cutoff the pool is
\* the input and the target energy is not evaluated in INIT.
C13_CutoffFilter ==
    (cfg.enabled /\ pc # "call") =>
        /\ CutoffFilterRule
        /\ (cfg.input_energy_cutoff = None => InitTargetEnergyCalls = <<>>)

\* C13 amended: as claimed, but without a cutoff the target energy is evaluated
\* in INIT exactly when do_energy_plots is set, twice on every batch of the pool
\* (for the target and for the interpolated energy series); the cutoff adds one
\* evaluation on the whole input.
C13_CutoffFilterAmended ==
    (cfg.enabled /\ pc # "call") =>
        /\ CutoffFilterRule
        /\ Len(InitTargetEnergyCalls) =
              (IF cfg.input_energy_cutoff = None THEN 0 ELSE 1)
              + (IF cfg.do_energy_plots THEN 2 * NumBatches ELSE 0)
        /\ (cfg.input_energy_cutoff = None /\ ~cfg.do_energy_plots =>
                InitTargetEnergyCalls = <<>>)

\* INIT has dropped the first particle of the pool 3, 2, 1, whose energy equals
\* the cutoff, and kept the others in their order
C13_Witness ==
    /\ AfterInit
    /\ cfg.input_energy_cutoff = 3
    /\ input = <<3, 2, 1>>
    /\ proposal_samples = <<2, 1>>
    /\ particle_ids = <<0, 1>>

\* the cadence of the sink at step jj, for the concatenated coordinates and weights
SinkIsDue(jj, Xc, Ac) ==
    \/ (jj + 1) % cfg.log_freq = 0
    \/ jj + 1 = cfg.num_timesteps
    \/ AnyNaN(Xc)
    \/ AnyNaN(Ac)
FlushesAt(jj) == {k \in EventsAt("flush") : log[k].j = jj}

\* C14 as claimed: the series are forwarded to the sink at step j whenever j + 1
\* is a multiple of log_freq, at the last step, and whenever the coordinates or
\* the weights hold a NaN, then before the fatal error is raised; the sink is
\* invoked at no other step, and once per step.
C14_FlushCadence ==
    /\ \A k \in EventsAt("flush") :
          /\ SinkIsDue(log[k].j, log[k].x, log[k].w)
          /\ FlushesAt(log[k].j) = {k}
    /\ (StepRecorded /\ SinkIsDue(j, X, A)) => FlushesAt(j) # {}
    /\ (pc = "done" /\ result.outcome \in FatalNaNErrors) =>
          /\ log[Len(log)].ev = "raise"
          /\ \E k \in FlushesAt(j) : k < Len(log)

\* C14 for the runs that do not end at the NaN check made on a batch before the
\* kernel is called
C14_FlushCadenceAfterKernel ==
    result.outcome # "ValueError: X contains NaNs" => C14_FlushCadence

Controllers == EventsAt("controller")
\* the step size before the controller call k of the run
StepSizeBefore(k) ==
    IF \E q \in Controllers : q < k
    THEN log[MaxOf({q \in Controllers : q < k})].w[1]
    ELSE cfg.langevin_eps

\* C15: with adaptive_step_size the controller runs once per step, after all
\* batches of the step went through the kernel and before the step's flush, ESS
\* and resampling; given step size s and rate r it leaves s * 1.1 if r > 0.6,
\* s / 1.1 if r < 0.55 and s if 0.55 <= r <= 0.6; without adaptive_step_size the
\* step size is never modified and the controller never runs.
C15_StepSizeControl ==
    /\ ~cfg.adaptive_step_size =>
          Controllers = {} /\ langevin_eps = cfg.langevin_eps
    /\ cfg.adaptive_step_size =>
          /\ \A k \in Controllers :
                LET s == log[k].x[1]
                    after == log[k].w[1]
                    r == log[k].aux
                    up == 10 * r[1] > 6 * r[2]
                    down == 100 * r[1] < 55 * r[2]
                IN /\ \A q \in Controllers : log[q].j = log[k].j => q = k
                   /\ Cardinality({q \in EventsAt("kernel") :
                                      log[q].j = log[k].j /\ q < k}) = NumBatches
                   /\ \A q \in 1..Len(log) :
                         (log[q].j = log[k].j /\ q > k) => log[q].ev # "kernel"
                   /\ \A q \in 1..Len(log) :
                         (log[q].j = log[k].j /\ q < k) =>
                            log[q].ev \in {"kernel", "target_energy", "source_energy"}
                   /\ s = StepSizeBefore(k)
                   /\ (up => after = s + 1)
                   /\ (down => after = s - 1)
                   /\ (~up /\ ~down => after = s)
          /\ langevin_eps = StepSizeBefore(Len(log) + 1)
          /\ StepRecorded => \A jj \in 0..j : \E k \in Controllers : log[k].j = jj
          /\ Cardinality(Controllers) <= j + 1

\* a step of several batches whose rate is exactly 0.6 has left the step size
\* of the step before, which a rate of 0.6 had left too
C15_Witness ==
    /\ cfg.adaptive_step_size
    /\ NumBatches >= 2
    /\ Cardinality(Controllers) = MaxT
    /\ \A k \in Controllers :
          /\ FracEq(log[k].aux, <<3, 5>>)
          /\ log[k].w = log[k].x

\* the value of an entry <<exponent, ramp>> of eps_list is the same as another's
SameStepSize(a, b) ==
    \/ a[2][1] = 0 /\ b[2][1] = 0
    \/ a[1] = b[1] /\ FracEq(a[2], b[2])
\* C16 as claimed: a second call of sample() on the same instance starts from the
\* configured seed step size, and, on the same input and with no random draw
\* inside the loop, records the step sizes and acceptance rates of the first
\* call and ends as the first call did.
C16_RunsDoNotInterfere ==
    Len(past) >= 1 =>
        /\ (pc # "call" /\ cfg.enabled /\ j = -1) => langevin_eps = cfg.langevin_eps
        /\ (pc = "done" /\ cfg.ess_threshold < 0) =>
              /\ result.outcome = past[1].result.outcome
              /\ series.acceptance_rate_list = past[1].series.acceptance_rate_list
              /\ Len(series.eps_list) = Len(past[1].series.eps_list)
              /\ \A k \in 1..Len(series.eps_list) :
                    SameStepSize(series.eps_list[k], past[1].series.eps_list[k])

\* C16 for the instances without adaptive_step_size
C16_RunsDoNotInterfereFixedStep ==
    ~cfg.adaptive_step_size => C16_RunsDoNotInterfere

\* the dt given to the first batch of step jj
DtOfStep(jj) == KernelEventsOf(jj)[1].aux[2]

\* C17: the kernel is called at the steps j = 0..T-1 only, every batch of step j
\* with the time t_j = j / T and with dt = t_j - t_(j-1), the predecessor of t_0
\* being 0: the first step has t = 0 and dt = 0, no call has t = 1, and in a run
\* that returns every step has called the kernel on every batch and the dt of
\* the T steps sum to (T - 1) / T.
C17_KernelSchedule ==
    /\ \A k \in EventsAt("kernel") :
          LET jj == log[k].j
              t == log[k].aux[1]
              dt == log[k].aux[2]
          IN /\ jj \in 0..(cfg.num_timesteps - 1)
             /\ FracEq(<<t[1], t[2]>>, <<jj, cfg.num_timesteps>>)
             /\ t[3] = 0
             /\ t[1] < t[2]
             /\ FracEq(dt, IF jj = 0 THEN <<0, 1>> ELSE <<1, cfg.num_timesteps>>)
             /\ (jj = 0 => t[1] = 0 /\ dt[1] = 0)
    /\ Completed =>
          /\ \A jj \in 0..(cfg.num_timesteps - 1) :
                Len(KernelEventsOf(jj)) = NumBatches
          /\ Cardinality(EventsAt("kernel")) = cfg.num_timesteps * NumBatches
          /\ FracEq(FracSum([i \in 1..cfg.num_timesteps |-> DtOfStep(i - 1)]),
                    <<cfg.num_timesteps - 1, cfg.num_timesteps>>)

\* a run of MaxT steps in several batches has returned
C17_Witness ==
    /\ Completed
    /\ cfg.num_timesteps = MaxT
    /\ NumBatches >= 2
    /\ DtOfStep(MaxT - 1)[1] > 0

\* the order of two recorded times <<numerator, denominator, 1e-9 added>>
SameTime(a, b) == a[1] * b[2] = b[1] * a[2] /\ a[3] = b[3]
TimeBefore(a, b) ==
    \/ a[1] * b[2] < b[1] * a[2]
    \/ a[1] * b[2] = b[1] * a[2] /\ a[3] < b[3]

\* C18 as claimed: every time appended to the recorded series (the initial
\* entry, the entry of each step at t_j, the snapshot after a resampling at
\* t_j + 1e-9) is strictly greater than the one appended before it.
C18_TimesStrictlyIncreasing ==
    \A k \in 1..(Len(series.t_list) - 1) :
        TimeBefore(series.t_list[k], series.t_list[k + 1])

\* the recorded times never decrease
C18_TimesNonDecreasing ==
    \A k \in 1..(Len(series.t_list) - 1) :
        \/ TimeBefore(series.t_list[k], series.t_list[k + 1])
        \/ SameTime(series.t_list[k], series.t_list[k + 1])

\* the initial-pool particle each particle descends from after the first k calls
\* of the run: the index vectors of the resamplings so far, composed
RECURSIVE Ancestors(_)
Ancestors(k) ==
    IF k = 0 THEN [i \in 1..N |-> i - 1]
    ELSE IF log[k].ev = "resample"
    THEN [i \in 1..N |-> Ancestors(k - 1)[log[k].aux.indexes[i] + 1]]
    ELSE Ancestors(k - 1)
FracLeq(a, b) == FracLess(a, b) \/ FracEq(a, b)

\* C19: the lineage ids are re-indexed by the index vector of every resampling,
\* in the loop and at the end, and changed by nothing else: they name the
\* initial-pool particle each particle descends from (with a kernel that leaves
\* the coordinates, particle i has the coordinates of initial particle
\* lineage_ids[i]); every id is in 0..N-1, the set of live ids never grows, the
\* recorded survived fraction is that of the ids and never increases, and the
\* run holds the coordinates and weights of the run that keeps no lineage.
C19_LineageTracking ==
    (cfg.enabled /\ pc # "call") =>
        /\ particle_ids = Ancestors(Len(log))
        /\ \A i \in 1..Len(particle_ids) : particle_ids[i] \in 0..(N - 1)
        /\ \A k \in 1..Len(log) : Range(Ancestors(k)) \subseteq Range(Ancestors(k - 1))
        /\ (cfg.kernel = "identity" /\ pc \in {"loop", "final"} =>
                X = Gather(proposal_samples, particle_ids))
        /\ (cfg.kernel = "identity" /\ Completed =>
                result.samples = Gather(proposal_samples, particle_ids))
        /\ (Completed =>
                result.samples = Gather(log[Len(log) - 1].x, log[Len(log) - 1].aux.indexes))
        /\ \A k \in 1..(Len(series.survived_linages) - 1) :
              FracLeq(series.survived_linages[k + 1], series.survived_linages[k])
        /\ (StepRecorded =>
                FracEq(Last(series.survived_linages), UniqueRatio(particle_ids)))
        /\ (pc \in {"loop", "final"} => ref.X = X /\ ref.A = A)

\* a run that leaves the coordinates to the resamplings has resampled in the loop
\* and at the end: its lineage is the composition of both index vectors, and
\* fewer lineages are alive than the last resampling alone selected
C19_Witness ==
    /\ Completed
    /\ cfg.kernel = "identity"
    /\ LoopResamples # {}
    /\ particle_ids # log[Len(log) - 1].aux.indexes
    /\ Cardinality(Range(particle_ids))
          < Cardinality(Range(log[Len(log) - 1].aux.indexes))
    /\ result.samples = Gather(input, particle_ids)

\* the number of entries the series hold when step jj begins: the initial entry,
\* one entry for each step before jj and one for each resampling before jj
EntriesBefore(jj) == 1 + jj + Cardinality({r \in LoopResamples : log[r].j < jj})
SeriesLengths(f) ==
    {Len(f.A_list), Len(f.ESS_list), Len(f.t_list), Len(f.eps_list),
     Len(f.acceptance_rate_list), Len(f.survived_linages)}
        \cup (IF cfg.do_energy_plots
              THEN {Len(f.target_energy_list), Len(f.interpolation_energy_list)}
              ELSE {})

\* C20: the flush of step j hands the sink series of one common length that hold
\* the initial entry and the entries of the steps 0..j-1 with their snapshots
\* after resampling, and nothing of step j: the weights and the time of step j
\* are appended after it.  The entries of the last step T-1 are appended after
\* the last flush and are never handed to the sink.
C20_FlushBeforeRecord ==
    /\ \A k \in EventsAt("flush") :
          LET f == log[k].aux
              jj == log[k].j
          IN /\ SeriesLengths(f) = {EntriesBefore(jj)}
             /\ \A i \in 2..Len(f.t_list) : f.t_list[i][1] <= jj - 1
             /\ f.A_list = SubSeq(series.A_list, 1, Len(f.A_list))
             /\ f.t_list = SubSeq(series.t_list, 1, Len(f.t_list))
             /\ (StepRecorded /\ jj = j =>
                    /\ Len(series.A_list) > Len(f.A_list)
                    /\ series.A_list[Len(f.A_list) + 1] = log[k].w
                    /\ series.t_list[Len(f.t_list) + 1] = Time(jj))
    /\ Completed =>
          /\ SeriesLengths(series) = {EntriesBefore(cfg.num_timesteps)}
          /\ \E k \in EventsAt("flush") : log[k].j = cfg.num_timesteps - 1
          /\ \A k \in EventsAt("flush") :
                /\ log[k].j <= cfg.num_timesteps - 1
                /\ Len(log[k].aux.A_list) < Len(series.A_list)
          /\ Last(series.A_list) = result.logits

\* the flush of the last step of a run of MaxT steps that resampled in the loop
\* and records energies
C20_Witness ==
    /\ Completed
    /\ cfg.num_timesteps = MaxT
    /\ cfg.do_energy_plots
    /\ LoopResamples # {}
    /\ \E k \in EventsAt("flush") :
          /\ log[k].j = MaxT - 1
          /\ Len(log[k].aux.t_list) > MaxT
          /\ Len(series.t_list) = Len(log[k].aux.t_list) + 1

====
